---- MODULE Spec2Model ----
(***************************************************************************)
(* A model of http-monitor: the terminal layout engine (tui: TerminalUI,   *)
(* UIElement, UIFlex, UIBox, UILogBox, UITable) and the monitor that       *)
(* drives it (monitor.ts).                                                 *)
(*                                                                         *)
(* Representation.                                                         *)
(*  - A JavaScript number is a record [k, v]: Num(n), NaN, PosInf, NegInf; *)
(*    an absent optional is Undefined.  The arithmetic the layout code     *)
(*    performs (-, *, Math.floor(a / n), Math.max, Math.min) is defined    *)
(*    on these with the IEEE results JavaScript gives.                     *)
(*  - A string is a sequence of one-character strings; "\n" is a character.*)
(*  - A rendered text is kept in its split("\n") form, as the sequence of  *)
(*    the display widths of its lines; the empty string is <<0>>.          *)
(*  - The children of a Flex are leaf elements (Box, LogBox, Table).       *)
(***************************************************************************)
EXTENDS Integers, Sequences, FiniteSets, TLC

(***************************************************************************)
(* Bounds of the model.                                                    *)
(***************************************************************************)
MaxChildren == 3
MaxLogs == 4
MaxChecks == 3
MaxResizes == 1
MaxStarts == 2
MaxWrites == 6

(***************************************************************************)
(* State.                                                                  *)
(*  Layout calls: element is the element a layout function is applied to,  *)
(*  constraints the constraints, outcome what the call returned and        *)
(*  previous what the call before it returned.                             *)
(*  UILogBox: logs and content; appended records the arguments of          *)
(*  appendLog in call order.                                               *)
(*  TerminalUI: rows, columns, child, isRunning; stdout is the terminal as *)
(*  process.stdout reports it (a count of 0 stands for an absent or zero   *)
(*  count); termOut is everything written to it; sigintListeners are the   *)
(*  listeners of process "SIGINT" in registration order; exited tells that *)
(*  the process has ended; lastPass are the constraints the root element   *)
(*  was last rendered with and shown the child as render() last drew it;   *)
(*  resizes and starts count the resize events and the calls of start().   *)
(*  monitor.ts: urls is the list given to createMonitor; fetches[i] holds  *)
(*  the state of the two requests of the check of urls[i]; inFlight is the *)
(*  set of positions whose check (requestSite) has not resolved; timers is *)
(*  the set of pending setTimeout callbacks; results is the Map of the     *)
(*  most recent results in insertion order; tableData is statusTable.data; *)
(*  checkLog records the starts and completions of checks in order.        *)
(***************************************************************************)
VARIABLES element, constraints, outcome, previous
VARIABLES logs, content, appended
VARIABLES rows, columns, child, isRunning, stdout, termOut, sigintListeners,
          exited, lastPass, shown, resizes, starts
VARIABLES mode, urls, fetches, inFlight, timers, results, tableData, checkLog

layoutVars == <<element, constraints, outcome, previous>>
logVars == <<logs, content, appended>>
surfaceVars == <<rows, columns, child, isRunning, stdout, termOut,
                 sigintListeners, exited, lastPass, shown, resizes, starts>>
monitorVars == <<mode, urls, fetches, inFlight, timers, results, tableData, checkLog>>
vars == <<layoutVars, logVars, surfaceVars, monitorVars>>

(***************************************************************************)
(* JavaScript numbers.                                                     *)
(***************************************************************************)
Num(n) == [k |-> "num", v |-> n]
NaN == [k |-> "nan", v |-> 0]
PosInf == [k |-> "inf", v |-> 1]
NegInf == [k |-> "inf", v |-> -1]
Undefined == [k |-> "undefined", v |-> 0]

IsNum(a) == a.k = "num"

\* (variant: 0 counts as absent too, as with a || b)
CoalesceOr(a, b) == IF a = Undefined \/ a = Num(0) THEN b ELSE a

\* a ?? b
Coalesce(a, b) == IF a = Undefined THEN b ELSE a

JSNeg(a) ==
    CASE a.k = "num" -> Num(-a.v)
      [] a.k = "inf" -> [k |-> "inf", v |-> -a.v]
      [] OTHER -> NaN

JSAdd(a, b) ==
    CASE a.k = "nan" \/ b.k = "nan" -> NaN
      [] a.k = "inf" /\ b.k = "inf" -> IF a.v = b.v THEN a ELSE NaN
      [] a.k = "inf" -> a
      [] b.k = "inf" -> b
      [] OTHER -> Num(a.v + b.v)

JSSub(a, b) == JSAdd(a, JSNeg(b))

Sign(n) == IF n > 0 THEN 1 ELSE IF n < 0 THEN -1 ELSE 0

JSMul(a, b) ==
    CASE a.k = "nan" \/ b.k = "nan" -> NaN
      [] a.k = "inf" /\ b.k = "inf" -> [k |-> "inf", v |-> a.v * b.v]
      [] a.k = "inf" -> IF b.v = 0 THEN NaN ELSE [k |-> "inf", v |-> a.v * Sign(b.v)]
      [] b.k = "inf" -> IF a.v = 0 THEN NaN ELSE [k |-> "inf", v |-> b.v * Sign(a.v)]
      [] OTHER -> Num(a.v * b.v)

\* Math.floor(a / n) for a count n >= 0 (n is always the length of a list)
JSFloorDiv(a, n) ==
    CASE a.k = "nan" -> NaN
      [] a.k = "inf" -> a
      [] n = 0 -> IF a.v = 0 THEN NaN ELSE [k |-> "inf", v |-> Sign(a.v)]
      [] OTHER -> Num(a.v \div n)

\* a < b in JavaScript (false when either is NaN)
JSLess(a, b) ==
    CASE a.k = "nan" \/ b.k = "nan" -> FALSE
      [] a.k = "inf" /\ b.k = "inf" -> a.v < b.v
      [] a.k = "inf" -> a.v < 0
      [] b.k = "inf" -> b.v > 0
      [] OTHER -> a.v < b.v

\* Math.max(a, b) and Math.min(a, b)
JSMax(a, b) ==
    IF a.k = "nan" \/ b.k = "nan" THEN NaN ELSE IF JSLess(a, b) THEN b ELSE a

JSMin(a, b) ==
    IF a.k = "nan" \/ b.k = "nan" THEN NaN ELSE IF JSLess(b, a) THEN b ELSE a

\* Math.max(...xs): -Infinity for the empty list
RECURSIVE JSMaxOf(_)
JSMaxOf(xs) == IF xs = <<>> THEN NegInf ELSE JSMax(Head(xs), JSMaxOf(Tail(xs)))

\* xs.reduce((acc, x) => acc + x, 0)
RECURSIVE JSSum(_)
JSSum(xs) == IF xs = <<>> THEN Num(0) ELSE JSAdd(Head(xs), JSSum(Tail(xs)))

(***************************************************************************)
(* Strings and texts.                                                      *)
(***************************************************************************)
NL == "\n"

Max2(a, b) == IF a >= b THEN a ELSE b
Min2(a, b) == IF a <= b THEN a ELSE b

RECURSIVE MaxNat(_)
MaxNat(xs) == IF xs = <<>> THEN 0 ELSE Max2(Head(xs), MaxNat(Tail(xs)))

RECURSIVE SumNat(_)
SumNat(xs) == IF xs = <<>> THEN 0 ELSE Head(xs) + SumNat(Tail(xs))

RECURSIVE Concat(_)
Concat(xss) == IF xss = <<>> THEN <<>> ELSE Head(xss) \o Concat(Tail(xss))

\* The position of the first "\n" of s, or 0
FirstNL(s) ==
    IF \E i \in 1..Len(s) : s[i] = NL
    THEN CHOOSE i \in 1..Len(s) : s[i] = NL /\ \A j \in 1..(i - 1) : s[j] # NL
    ELSE 0

\* s.split("\n"): always at least one line
RECURSIVE Split(_)
Split(s) ==
    LET i == FirstNL(s)
    IN  IF i = 0 THEN <<s>>
        ELSE <<SubSeq(s, 1, i - 1)>> \o Split(SubSeq(s, i + 1, Len(s)))

\* parts.join("\n")
RECURSIVE Join(_)
Join(parts) ==
    IF parts = <<>> THEN <<>>
    ELSE IF Len(parts) = 1 THEN Head(parts)
    ELSE Head(parts) \o <<NL>> \o Join(Tail(parts))

\* stringWidth(line): every character of the model occupies one cell
stringWidth(line) == Len(line)

\* the split form of a string, as display widths
TextOf(s) == LET ls == Split(s) IN [i \in 1..Len(ls) |-> stringWidth(ls[i])]

\* lines.join("\n") of already rendered lines, again in split form
JoinLines(ws) == IF ws = <<>> THEN <<0>> ELSE ws

\* texts.join("\n") of rendered texts, in split form
JoinTexts(ts) == IF ts = <<>> THEN <<0>> ELSE Concat(ts)

\* widestLine(text)
widestLine(t) == MaxNat(t)

\* the number of lines and the width a text shows on the terminal
LineCount(t) == IF t = <<0>> THEN 0 ELSE Len(t)
TextWidth(t) == MaxNat(t)

(***************************************************************************)
(* Leaf elements.  A leaf is a record                                      *)
(*   [kind, fixedHeight, fixedWidth, content, headers, data]               *)
(* with kind "box", "logbox" or "table".                                   *)
(***************************************************************************)
NoConstraints == [maxWidth |-> Undefined, maxHeight |-> Undefined]
Constraints(w, h) == [maxWidth |-> w, maxHeight |-> h]

\* Lines a content line of width l takes once hard-wrapped to iw columns
WrapCount(l, iw) == IF iw = 0 \/ l <= iw THEN 1 ELSE (l + iw - 1) \div iw

\* boxen(content, {width, height}) with the default single border and no
\* padding: a given non-zero width or height w is the outer size, never
\* below 3 (inner size max(1, w - 2)); an absent one leaves the natural size.
boxen(text, width, height) ==
    LET ls == TextOf(text)
        iw == IF width = Undefined THEN widestLine(ls)
              ELSE IF width.v = 0 THEN 0
              ELSE Max2(1, width.v - 2)
        n  == IF width = Undefined THEN Len(ls)
              ELSE SumNat([i \in 1..Len(ls) |-> WrapCount(ls[i], iw)])
        ih == IF height = Undefined \/ height.v = 0 THEN n
              ELSE Max2(1, height.v - 2)
    IN  [i \in 1..(ih + 2) |-> iw + 2]

\* UIBox.render(constraints?)
BoxRender(el, cons) == boxen(el.content, cons.maxWidth, cons.maxHeight)

\* Width of column j of a cli-table: widest cell plus one cell of padding
\* on each side
ColWidth(el, j) ==
    LET cells == (IF j <= Len(el.headers) THEN <<Len(el.headers[j])>> ELSE <<>>)
                 \o [r \in 1..Len(el.data) |->
                        IF j <= Len(el.data[r]) THEN Len(el.data[r][j]) ELSE 0]
    IN  MaxNat(cells) + 2

\* UITable.render(): the constraints are not read
TableRender(el, cons) ==
    LET n     == Len(el.data)
        ncols == Max2(Len(el.headers), MaxNat([r \in 1..n |-> Len(el.data[r])]))
        tw    == SumNat([j \in 1..ncols |-> ColWidth(el, j)]) + ncols + 1
        nl    == IF el.headers # <<>> THEN 2 * n + 3
                 ELSE IF n > 0 THEN 2 * n + 1 ELSE 0
    IN  JoinLines([i \in 1..nl |-> tw])

\* el.render(constraints) dispatched on the class of the leaf
LeafRender(el, cons) ==
    IF el.kind = "table" THEN TableRender(el, cons) ELSE BoxRender(el, cons)

\* calculateHeight(): this.render().split("\n").length
LeafCalculateHeight(el) == Num(Len(LeafRender(el, NoConstraints)))

\* calculateWidth(): widestLine(this.render())
LeafCalculateWidth(el) == Num(widestLine(LeafRender(el, NoConstraints)))

\* get height / get width of UIElement
ElHeight(el) == Coalesce(el.fixedHeight, LeafCalculateHeight(el))
ElWidth(el) == Coalesce(el.fixedWidth, LeafCalculateWidth(el))

HasFixedHeight(el) == el.fixedHeight # Undefined
HasFixedWidth(el) == el.fixedWidth # Undefined
NoFixedHeight(el) == el.fixedHeight = Undefined
NoFixedWidth(el) == el.fixedWidth = Undefined

Heights(els) == [i \in 1..Len(els) |-> ElHeight(els[i])]
Widths(els) == [i \in 1..Len(els) |-> ElWidth(els[i])]

(***************************************************************************)
(* UIFlex.  A Flex is a record                                             *)
(*   [kind |-> "flex", fixedHeight, fixedWidth, direction, elements].      *)
(***************************************************************************)

\* Math.max(0, Math.floor(remaining / flexible.length))
FlexibleShare(remaining, count) == JSMax(Num(0), JSFloorDiv(remaining, count))

\* UIFlex.calculateHeight()
FlexCalculateHeight(f) ==
    IF f.direction = "horizontal" THEN JSMaxOf(Heights(f.elements))
    ELSE LET fixed     == SelectSeq(f.elements, HasFixedHeight)
             flexible  == SelectSeq(f.elements, NoFixedHeight)
             remaining == JSSub(Coalesce(f.fixedHeight, PosInf), JSSum(Heights(fixed)))
             flexibleHeight == FlexibleShare(remaining, Len(flexible))
         IN  JSAdd(JSSum(Heights(fixed)), JSMul(Num(Len(flexible)), flexibleHeight))

\* UIFlex.calculateWidth()
FlexCalculateWidth(f) ==
    IF f.direction = "horizontal"
    THEN LET fixed     == SelectSeq(f.elements, HasFixedWidth)
             flexible  == SelectSeq(f.elements, NoFixedWidth)
             remaining == JSSub(Coalesce(f.fixedWidth, PosInf), JSSum(Widths(fixed)))
             flexibleWidth == FlexibleShare(remaining, Len(flexible))
         IN  JSAdd(JSSum(Widths(fixed)), JSMul(Num(Len(flexible)), flexibleWidth))
    ELSE JSMaxOf(Widths(f.elements))

\* get height / get width of a Flex
FlexHeight(f) == Coalesce(f.fixedHeight, FlexCalculateHeight(f))
FlexWidth(f) == Coalesce(f.fixedWidth, FlexCalculateWidth(f))

\* renderHorizontal: the flexible share computed from maxWidth
HorizontalShare(f, dims) ==
    LET fixed     == SelectSeq(f.elements, HasFixedWidth)
        flexible  == SelectSeq(f.elements, NoFixedWidth)
        remaining == JSSub(dims.maxWidth, JSSum(Widths(fixed)))
    IN  FlexibleShare(remaining, Len(flexible))

\* renderHorizontal: the {width, height} given to every child
HorizontalDimensions(f, dims) ==
    [i \in 1..Len(f.elements) |->
        [width  |-> Coalesce(f.elements[i].fixedWidth, HorizontalShare(f, dims)),
         height |-> JSMin(ElHeight(f.elements[i]), dims.maxHeight)]]

\* The separator joined between the children's lines: .join(" ")
Separator == 1

\* el.rendered[i] || " ".repeat(el.width): the child's line i, or a blank
\* fill when the child has no line i or its line i is the empty string
LineOrFill(rendered, i, width) ==
    IF i <= Len(rendered) /\ rendered[i] # 0 THEN rendered[i] ELSE width.v

\* UIFlex.renderHorizontal(dimensions)
RenderHorizontal(f, dims) ==
    LET ed       == HorizontalDimensions(f, dims)
        n        == Len(f.elements)
        rendered == [i \in 1..n |->
                       LeafRender(f.elements[i], Constraints(ed[i].width, ed[i].height))]
        count    == JSMaxOf([i \in 1..n |-> ed[i].height])
        nlines   == IF IsNum(count) /\ count.v > 0 THEN count.v ELSE 0
        lines    == [l \in 1..nlines |->
                       SumNat([i \in 1..n |-> LineOrFill(rendered[i], l, ed[i].width)])
                       + (n - 1) * Separator]
    IN  [text |-> JoinLines(lines), given |-> ed, share |-> HorizontalShare(f, dims)]

\* renderVertical: remainingHeight before child i is visited, after the
\* fixed heights were deducted and the children before i were assigned
RECURSIVE RemainingBefore(_, _, _)
\* (variant: every flexible child is given an even share of maxHeight)
AssignedHeightEvenSplit(f, dims, i) ==
    Coalesce(f.elements[i].fixedHeight,
             JSMin(LeafCalculateHeight(f.elements[i]),
                   JSFloorDiv(dims.maxHeight, Len(f.elements))))
AssignedHeight(f, dims, i) ==
    Coalesce(f.elements[i].fixedHeight,
             JSMin(LeafCalculateHeight(f.elements[i]), RemainingBefore(f, dims, i)))
RemainingBefore(f, dims, i) ==
    IF i = 1
    THEN JSSub(dims.maxHeight, JSSum(Heights(SelectSeq(f.elements, HasFixedHeight))))
    ELSE JSSub(RemainingBefore(f, dims, i - 1), AssignedHeight(f, dims, i - 1))

\* renderVertical: the {width, height} given to every child
VerticalDimensions(f, dims) ==
    LET widestWidth == JSMaxOf(Widths(f.elements))
    IN  [i \in 1..Len(f.elements) |->
            [width  |-> JSMin(widestWidth, dims.maxWidth),
             height |-> AssignedHeight(f, dims, i)]]

\* line + " ".repeat(Math.max(0, widestWidth - stringWidth(line)))
PadRight(w, widestWidth) ==
    LET pad == JSMax(Num(0), JSSub(widestWidth, Num(w)))
    IN  IF IsNum(pad) THEN w + pad.v ELSE w

\* UIFlex.renderVertical(dimensions)
RenderVertical(f, dims) ==
    LET ed          == VerticalDimensions(f, dims)
        n           == Len(f.elements)
        widestWidth == JSMaxOf(Widths(f.elements))
        joined      == JoinTexts([i \in 1..n |->
                          LeafRender(f.elements[i], Constraints(ed[i].width, ed[i].height))])
    IN  [text  |-> [l \in 1..Len(joined) |-> PadRight(joined[l], widestWidth)],
         given |-> ed, share |-> Undefined]

\* UIFlex.render(dimensions)
FlexRender(f, dims) ==
    IF f.direction = "horizontal" THEN RenderHorizontal(f, dims)
    ELSE RenderVertical(f, dims)

\* render / height / width of any element, leaf or Flex
ElementRender(el, dims) ==
    IF el.kind = "flex" THEN FlexRender(el, dims)
    ELSE [text |-> LeafRender(el, dims), given |-> <<>>, share |-> Undefined]
ElementHeight(el) == IF el.kind = "flex" THEN FlexHeight(el) ELSE ElHeight(el)
ElementWidth(el) == IF el.kind = "flex" THEN FlexWidth(el) ELSE ElWidth(el)

\* calculateHeight() / calculateWidth() of any element, leaf or Flex
ElementCalculateHeight(el) ==
    IF el.kind = "flex" THEN FlexCalculateHeight(el) ELSE LeafCalculateHeight(el)
ElementCalculateWidth(el) ==
    IF el.kind = "flex" THEN FlexCalculateWidth(el) ELSE LeafCalculateWidth(el)

(***************************************************************************)
(* The inputs of the layout specification.                                 *)
(***************************************************************************)
EightLines == [i \in 1..15 |-> IF i % 2 = 1 THEN "a" ELSE NL]

Leaf(kind, fh, fw, text, headers, data) ==
    [kind |-> kind, fixedHeight |-> fh, fixedWidth |-> fw,
     content |-> text, headers |-> headers, data |-> data]

Leaves ==
    { Leaf("box", Undefined, Undefined, <<>>, <<>>, <<>>),
      Leaf("box", Undefined, Num(5), <<"a", "b">>, <<>>, <<>>),
      Leaf("box", Undefined, Undefined, EightLines, <<>>, <<>>),
      Leaf("box", Num(4), Num(5), <<"a", "b">>, <<>>, <<>>),
      Leaf("logbox", Undefined, Undefined, <<"b", NL, "a">>, <<>>, <<>>),
      Leaf("table", Undefined, Undefined, <<>>,
           << <<"A">>, <<"B">> >>, << << <<"1">>, <<"2">> >> >>) }

SeqsUpTo(S, n) == UNION { [1..k -> S] : k \in 0..n }

Flexes ==
    { [kind |-> "flex", fixedHeight |-> fx, fixedWidth |-> fx,
       direction |-> d, elements |-> es] :
        fx \in {Undefined, Num(10)},
        d \in {"horizontal", "vertical"},
        es \in SeqsUpTo(Leaves, MaxChildren) }

WidthsTried == {0, 5, 10}
HeightsTried == {0, 10, 15}

NoOutcome ==
    [op |-> "none", text |-> <<>>, given |-> <<>>, share |-> Undefined,
     value |-> Undefined]

InitLayout ==
    /\ element \in Flexes \cup Leaves
    /\ constraints \in { Constraints(Num(w), Num(h)) : w \in WidthsTried, h \in HeightsTried }
    /\ outcome = NoOutcome
    /\ previous = NoOutcome

\* element.render(constraints)
CallRender ==
    /\ outcome.op = "none"
    /\ LET r == ElementRender(element, constraints)
       IN  outcome' = [op |-> "render", text |-> r.text, given |-> r.given,
                       share |-> r.share, value |-> Undefined]
    /\ previous' = outcome
    /\ UNCHANGED <<element, constraints>>
    /\ UNCHANGED <<logVars, surfaceVars, monitorVars>>

\* element.height
CallHeight ==
    /\ outcome.op = "none"
    /\ outcome' = [NoOutcome EXCEPT !.op = "height", !.value = ElementHeight(element)]
    /\ previous' = outcome
    /\ UNCHANGED <<element, constraints>>
    /\ UNCHANGED <<logVars, surfaceVars, monitorVars>>

\* element.width
CallWidth ==
    /\ outcome.op = "none"
    /\ outcome' = [NoOutcome EXCEPT !.op = "width", !.value = ElementWidth(element)]
    /\ previous' = outcome
    /\ UNCHANGED <<element, constraints>>
    /\ UNCHANGED <<logVars, surfaceVars, monitorVars>>

\* element.calculateHeight()
CallCalculateHeight ==
    /\ outcome.op = "none"
    /\ outcome' = [NoOutcome EXCEPT !.op = "calculateHeight",
                                    !.value = ElementCalculateHeight(element)]
    /\ previous' = outcome
    /\ UNCHANGED <<element, constraints>>
    /\ UNCHANGED <<logVars, surfaceVars, monitorVars>>

\* element.calculateWidth()
CallCalculateWidth ==
    /\ outcome.op = "none"
    /\ outcome' = [NoOutcome EXCEPT !.op = "calculateWidth",
                                    !.value = ElementCalculateWidth(element)]
    /\ previous' = outcome
    /\ UNCHANGED <<element, constraints>>
    /\ UNCHANGED <<logVars, surfaceVars, monitorVars>>

(***************************************************************************)
(* An element that is read, rendered and changed: its getters and render,  *)
(* the height and width setters, and the changes of content (an assignment *)
(* to Box.content, LogBox.appendLog, Table.setData).  A change is made to  *)
(* the element itself or, for a Flex, to its first child.                  *)
(***************************************************************************)
SetterHeights == {Num(0), Num(3)}
SetterWidths == {Num(0), Num(7)}
BoxContents == { <<>>, <<"a", "b">>, <<"a", NL, "b", NL, "c">> }
TableDatas == { <<>>, << << <<"1">>, <<"2">> >> >>,
                << << <<"1">>, <<"2">> >>, << <<"3", "3">>, <<"4">> >> >> }

ElementInputs ==
    Leaves \cup
    { [kind |-> "flex", fixedHeight |-> Undefined, fixedWidth |-> Undefined,
       direction |-> d,
       elements |-> << Leaf("logbox", Undefined, Undefined, <<"b", NL, "a">>, <<>>, <<>>),
                       Leaf("box", Undefined, Num(5), <<"a", "b">>, <<>>, <<>>) >>] :
        d \in {"horizontal", "vertical"} }

\* (variant: a call empties the content of a leaf)
AfterCallEmptied(el) == IF el.kind = "flex" THEN el ELSE [el EXCEPT !.content = <<>>]

\* The element after render(), height, width, calculateHeight() or
\* calculateWidth(): none of them assigns to a field
AfterCall(el) == el

\* The content of a LogBox after appendLog(log)
AppendedContent(c, log) == IF c = <<>> THEN log ELSE log \o <<NL>> \o c

\* The contents a leaf can be given next
ContentChanges(el) ==
    IF el.kind = "box" THEN { [el EXCEPT !.content = t] : t \in BoxContents }
    ELSE IF el.kind = "logbox"
    THEN IF Len(Split(el.content)) < MaxLogs
         THEN { [el EXCEPT !.content = AppendedContent(el.content, <<"c">>)] }
         ELSE {}
    ELSE IF el.kind = "table" THEN { [el EXCEPT !.data = d] : d \in TableDatas }
    ELSE {}

\* The targets of a change, the target itself and the element with its
\* target replaced
TargetsOf(el) ==
    IF el.kind = "flex" /\ el.elements # <<>> THEN {"self", "child"} ELSE {"self"}
Target(el, t) == IF t = "self" THEN el ELSE el.elements[1]
Replaced(el, t, new) == IF t = "self" THEN new ELSE [el EXCEPT !.elements[1] = new]

InitElement ==
    /\ element \in ElementInputs
    /\ constraints = Constraints(Num(10), Num(10))
    /\ outcome = NoOutcome
    /\ previous = NoOutcome

\* A change of the element: what the calls before it returned is forgotten
Changed(new) ==
    /\ new # element
    /\ element' = new
    /\ outcome' = NoOutcome
    /\ previous' = NoOutcome
    /\ UNCHANGED constraints

\* target.height = h
SetHeight ==
    /\ \E t \in TargetsOf(element), h \in SetterHeights :
          Changed(Replaced(element, t, [Target(element, t) EXCEPT !.fixedHeight = h]))
    /\ UNCHANGED <<logVars, surfaceVars, monitorVars>>

\* target.width = w
SetWidth ==
    /\ \E t \in TargetsOf(element), w \in SetterWidths :
          Changed(Replaced(element, t, [Target(element, t) EXCEPT !.fixedWidth = w]))
    /\ UNCHANGED <<logVars, surfaceVars, monitorVars>>

\* target.content = text, target.appendLog(log) or target.setData(rows)
ChangeContent ==
    /\ \E t \in TargetsOf(element) :
          \E new \in ContentChanges(Target(element, t)) :
              Changed(Replaced(element, t, new))
    /\ UNCHANGED <<logVars, surfaceVars, monitorVars>>

\* element.height
GetHeight ==
    /\ outcome' = [NoOutcome EXCEPT !.op = "height", !.value = ElementHeight(element)]
    /\ previous' = outcome
    /\ element' = AfterCall(element)
    /\ UNCHANGED constraints
    /\ UNCHANGED <<logVars, surfaceVars, monitorVars>>

\* element.width
GetWidth ==
    /\ outcome' = [NoOutcome EXCEPT !.op = "width", !.value = ElementWidth(element)]
    /\ previous' = outcome
    /\ element' = AfterCall(element)
    /\ UNCHANGED constraints
    /\ UNCHANGED <<logVars, surfaceVars, monitorVars>>

\* element.render(constraints)
RenderElement ==
    /\ LET r == ElementRender(element, constraints)
       IN  outcome' = [op |-> "render", text |-> r.text, given |-> r.given,
                       share |-> r.share, value |-> Undefined]
    /\ previous' = outcome
    /\ element' = AfterCall(element)
    /\ UNCHANGED constraints
    /\ UNCHANGED <<logVars, surfaceVars, monitorVars>>

(***************************************************************************)
(* UILogBox.                                                               *)
(***************************************************************************)
Reverse(xs) == [i \in 1..Len(xs) |-> xs[Len(xs) + 1 - i]]

\* (variant: the entry is pushed at the end)
UnshiftAtEnd(ls, log) == Append(ls, log)

\* this.logs.unshift(log)
Unshift(ls, log) == <<log>> \o ls

InitLogBox ==
    /\ logs = <<>>
    /\ content = <<>>
    /\ appended = <<>>

\* UILogBox.appendLog(log); appended records the arguments in call order
AppendLog(log) ==
    /\ logs' = Unshift(logs, log)
    /\ content' = Join(logs')
    /\ appended' = Append(appended, log)

LogLines == { <<"a">>, <<"b">>, <<"c">>, <<>> }

CallAppendLog ==
    /\ Len(logs) < MaxLogs
    /\ \E log \in LogLines : AppendLog(log)
    /\ UNCHANGED <<layoutVars, surfaceVars, monitorVars>>

(***************************************************************************)
(* TerminalUI.                                                             *)
(***************************************************************************)
DefaultRows == 24
DefaultColumns == 80

\* n || d
OrDefault(n, d) == IF n = 0 THEN d ELSE n

NullChild == [kind |-> "null"]
NoPass == [maxWidth |-> Undefined, maxHeight |-> Undefined]

StdoutSizes ==
    { [rows |-> 0, columns |-> 0], [rows |-> 24, columns |-> 80],
      [rows |-> 10, columns |-> 40] }

\* The terminal the monitor is started in
TerminalSize == [rows |-> DefaultRows, columns |-> DefaultColumns]

\* (variant: the size held is not refreshed)
SizeKept(current, out) == current

\* The rows and columns the Surface holds after reading process.stdout
SizeFrom(current, out) ==
    [rows |-> OrDefault(out.rows, DefaultRows),
     columns |-> OrDefault(out.columns, DefaultColumns)]

\* Whether the cursor is hidden after the writes ws
RECURSIVE CursorHidden(_)
CursorHidden(ws) ==
    IF ws = <<>> THEN FALSE
    ELSE IF ws[Len(ws)] = "clear-home-hide" THEN TRUE
    ELSE IF ws[Len(ws)] = "show-cursor" THEN FALSE
    ELSE CursorHidden(SubSeq(ws, 1, Len(ws) - 1))

\* TerminalUI.cleanup(): the writes it makes
CleanupWrites == <<"show-cursor", "newline">>

\* The constraints of the render pass TerminalUI.render() makes
RenderPass(c, cols, rws, last) ==
    IF c = NullChild THEN last ELSE Constraints(Num(cols), Num(rws))

\* What TerminalUI.render() writes with the child c: the cursor move, then
\* the content only when the trimmed text is not empty
RenderWrites(c, cols, rws) ==
    IF c = NullChild THEN <<"cursor-to">>
    ELSE LET text == ElementRender(c, Constraints(Num(cols), Num(rws))).text
         IN  IF TextWidth(text) > 0 THEN <<"cursor-to", "content">>
             ELSE <<"cursor-to">>

\* The child as it was when render() last called its render(): the optional
\* call of line 63-64 leaves the earlier one when there is no child
RenderShown(c, last) == IF c = NullChild THEN last ELSE c

\* new TerminalUI()
InitSurfaceAt(size) ==
    /\ stdout = size
    /\ rows = SizeFrom([rows |-> 0, columns |-> 0], stdout).rows
    /\ columns = SizeFrom([rows |-> 0, columns |-> 0], stdout).columns
    /\ child = NullChild
    /\ isRunning = FALSE
    /\ termOut = <<>>
    /\ sigintListeners = <<>>
    /\ exited = FALSE
    /\ lastPass = NoPass
    /\ shown = NullChild
    /\ resizes = 0
    /\ starts = 0

InitSurface == \E size \in StdoutSizes : InitSurfaceAt(size)

\* TerminalUI.render()
Render ==
    /\ ~exited
    /\ Len(termOut) < MaxWrites
    /\ termOut' = termOut \o RenderWrites(child, columns, rows)
    /\ lastPass' = RenderPass(child, columns, rows, lastPass)
    /\ shown' = RenderShown(child, shown)
    /\ UNCHANGED <<rows, columns, child, isRunning, stdout, sigintListeners,
                   exited, resizes, starts>>
    /\ UNCHANGED <<layoutVars, logVars, monitorVars>>

\* The terminal is resized: process.stdout takes the new size and emits
\* "resize", whose listener refreshes rows and columns and renders
Resize ==
    /\ ~exited
    /\ resizes < MaxResizes
    /\ \E size \in StdoutSizes :
          /\ size # stdout
          /\ stdout' = size
          /\ rows' = SizeFrom([rows |-> rows, columns |-> columns], size).rows
          /\ columns' = SizeFrom([rows |-> rows, columns |-> columns], size).columns
    /\ resizes' = resizes + 1
    /\ termOut' = termOut \o RenderWrites(child, columns', rows')
    /\ lastPass' = RenderPass(child, columns', rows', lastPass)
    /\ shown' = RenderShown(child, shown)
    /\ UNCHANGED <<child, isRunning, sigintListeners, exited, starts>>
    /\ UNCHANGED <<layoutVars, logVars, monitorVars>>

\* (variant: the listener of start() is called before the earlier ones)
StartListenersFirst(ls) == <<"tui-start">> \o ls

\* The listeners of "SIGINT" after start() has run
StartListeners(ls) == Append(ls, "tui-start")

\* TerminalUI.start()
Start ==
    /\ ~exited
    /\ starts < MaxStarts
    /\ starts' = starts + 1
    /\ sigintListeners' = StartListeners(sigintListeners)
    /\ IF isRunning
       THEN UNCHANGED <<isRunning, termOut>>
       ELSE /\ isRunning' = TRUE
            /\ termOut' = Append(termOut, "clear-home-hide")
    /\ UNCHANGED <<rows, columns, child, stdout, exited, lastPass, shown, resizes>>
    /\ UNCHANGED <<layoutVars, logVars, monitorVars>>

\* TerminalUI.setChild(child)
SetChild ==
    /\ ~exited
    /\ \E el \in Leaves : child' = el
    /\ child' # child
    /\ UNCHANGED <<rows, columns, isRunning, stdout, termOut, sigintListeners,
                   exited, lastPass, shown, resizes, starts>>
    /\ UNCHANGED <<layoutVars, logVars, monitorVars>>

\* TerminalUI.exit(): cleanup(), then process.exit(0)
Exit ==
    /\ ~exited
    /\ termOut' = termOut \o CleanupWrites
    /\ exited' = TRUE
    /\ UNCHANGED <<rows, columns, child, isRunning, stdout, sigintListeners,
                   lastPass, shown, resizes, starts>>
    /\ UNCHANGED <<layoutVars, logVars, monitorVars>>

\* The writes of the SIGINT listeners ls, called in registration order up
\* to the first one that ends the process (each of the two does)
SigintWrites(ls) ==
    IF ls = <<>> THEN <<>>
    ELSE IF Head(ls) = "monitor-exit" THEN CleanupWrites
    ELSE <<"log:Ctrl-C was pressed">>

\* An interrupt signal is delivered: with no listener the process is
\* killed, otherwise the listeners run
Sigint ==
    /\ ~exited
    /\ termOut' = termOut \o SigintWrites(sigintListeners)
    /\ exited' = TRUE
    /\ UNCHANGED <<rows, columns, child, isRunning, stdout, sigintListeners,
                   lastPass, shown, resizes, starts>>
    /\ UNCHANGED <<layoutVars, logVars, monitorVars>>

(***************************************************************************)
(* monitor.ts.                                                             *)
(***************************************************************************)
Outcomes == {"ok", "fail"}

\* The lists of URLs tried: one site, two sites, the same site twice
UrlLists ==
    { << <<"h", "1">> >>, << <<"h", "1">>, <<"h", "2">> >>,
      << <<"h", "1">>, <<"h", "1">> >> }

Pending == <<"P", "e", "n", "d", "i", "n", "g">>
NotAvailable == <<"N", "/", "A">>
TableHeaders ==
    << <<"U", "R", "L">>, <<"H", "T", "T", "P">>, <<"H", "T", "T", "P", "S">>,
       <<"A", "v", "g">> >>

\* chalk.green(`OK (${status})`) or chalk.red(`ERROR ${status}`): the colour
\* codes take no cell
StatusText(o) ==
    IF o = "ok" THEN <<"O", "K", " ", "(", "2", "0", "0", ")">>
    ELSE <<"E", "R", "R", "O", "R", " ", "0">>

Idle == [http |-> "idle", https |-> "idle", first |-> "none"]
Started == [http |-> "pending", https |-> "pending", first |-> "none"]

\* makeSiteStatusData(result)
makeSiteStatusData(r) ==
    <<r.host, StatusText(r.http), StatusText(r.https), <<"m", "s">> >>

\* makeRequestResultMessage(result)
makeRequestResultMessage(host, proto, o) ==
    host \o <<" ">> \o proto \o <<" ">> \o StatusText(o)

ProtoText(p) == IF p = "http" THEN <<"h", "t", "t", "p">> ELSE <<"h", "t", "t", "p", "s">>

\* logSiteRequestResults: the two messages, the earlier request first
LogMessages(r) ==
    LET second == IF r.first = "http" THEN "https" ELSE "http"
    IN  << makeRequestResultMessage(r.host, ProtoText(r.first), r[r.first]),
           makeRequestResultMessage(r.host, ProtoText(second), r[second]) >>

\* results.set(key, r): a known key keeps its place, a new one goes last
RECURSIVE MapSet(_, _)
MapSet(m, r) ==
    IF m = <<>> THEN <<r>>
    ELSE IF Head(m).host = r.host THEN <<r>> \o Tail(m)
    ELSE <<Head(m)>> \o MapSet(Tail(m), r)

\* updateStatusTable
StatusRows(m) == [i \in 1..Len(m) |-> makeSiteStatusData(m[i])]

\* urls.map((url) => [url.hostname, "Pending", "Pending", "N/A"])
PendingRows(us) == [i \in 1..Len(us) |-> <<us[i], Pending, Pending, NotAvailable>>]

\* new UIFlex({direction: "vertical", elements: [statusTable, logBox]})
FlexBox(data, logContent) ==
    [kind |-> "flex", fixedHeight |-> Undefined, fixedWidth |-> Undefined,
     direction |-> "vertical",
     elements |-> << Leaf("table", Undefined, Undefined, <<>>, TableHeaders, data),
                     Leaf("logbox", Undefined, Undefined, logContent, <<>>, <<>>) >>]

\* (variant: every position is checked at once in either mode)
FirstChecksAll(m, us) == 1..Len(us)

\* The positions checked first: every one in parallel mode, the first one
\* in sequential mode
FirstChecks(m, us) == IF m = "parallel" THEN 1..Len(us) ELSE {1}

\* createMonitor(urls, {mode})
InitMonitor ==
    /\ mode \in {"parallel", "sequential"}
    /\ urls \in UrlLists
    /\ stdout = TerminalSize
    /\ rows = SizeFrom([rows |-> 0, columns |-> 0], stdout).rows
    /\ columns = SizeFrom([rows |-> 0, columns |-> 0], stdout).columns
    /\ InitLogBox
    /\ tableData = PendingRows(urls)
    /\ child = FlexBox(tableData, content)
    /\ sigintListeners = StartListeners(<<"monitor-exit">>)
    /\ isRunning = TRUE
    /\ termOut = <<"clear-home-hide">> \o RenderWrites(child, columns, rows)
    /\ lastPass = RenderPass(child, columns, rows, NoPass)
    /\ shown = RenderShown(child, NullChild)
    /\ exited = FALSE
    /\ resizes = 0
    /\ starts = 1
    /\ results = <<>>
    /\ inFlight = FirstChecks(mode, urls)
    /\ fetches = [i \in 1..Len(urls) |-> IF i \in inFlight THEN Started ELSE Idle]
    /\ timers = {}
    /\ checkLog = [i \in 1..Cardinality(inFlight) |-> <<"start", i>>]

\* (variant: the screen is rendered before the table and the log change)
OnUpdateRenderFirst(r) ==
    /\ results' = MapSet(results, r)
    /\ tableData' = StatusRows(results')
    /\ LET ms == LogMessages(r)
       IN  /\ logs' = Unshift(Unshift(logs, ms[1]), ms[2])
           /\ content' = Join(logs')
           /\ appended' = appended \o ms
    /\ child' = FlexBox(tableData', content')
    /\ termOut' = termOut \o RenderWrites(child, columns, rows)
    /\ lastPass' = RenderPass(child, columns, rows, lastPass)
    /\ shown' = RenderShown(child, shown)

\* onUpdate(result): the table is replaced, the two messages are logged,
\* the screen is rendered
OnUpdate(r) ==
    /\ results' = MapSet(results, r)
    /\ tableData' = StatusRows(results')
    /\ LET ms == LogMessages(r)
       IN  /\ logs' = Unshift(Unshift(logs, ms[1]), ms[2])
           /\ content' = Join(logs')
           /\ appended' = appended \o ms
    /\ child' = FlexBox(tableData', content')
    /\ termOut' = termOut \o RenderWrites(child', columns, rows)
    /\ lastPass' = RenderPass(child', columns, rows, lastPass)
    /\ shown' = RenderShown(child', shown)

\* What follows the completion of the check of position i: in parallel
\* mode its own timer; in sequential mode the check of the next position,
\* or the timer of the next cycle after the last one
NextStarts(m, us, i) == IF m = "sequential" /\ i < Len(us) THEN {i + 1} ELSE {}
\* (variant: no timer is set)
NextTimersNone(m, us, i) == {}
\* (variant: one timer for the whole list, set after the last position)
NextTimersShared(m, us, i) == IF i = Len(us) THEN {0} ELSE {}
NextTimers(m, us, i) ==
    IF m = "parallel" THEN {i} ELSE IF i = Len(us) THEN {0} ELSE {}

\* One of the two requests of a check settles while the other is pending
FetchSettles ==
    /\ ~exited
    /\ \E i \in inFlight, p \in {"http", "https"}, o \in Outcomes :
          /\ fetches[i][p] = "pending"
          /\ fetches[i].first = "none"
          /\ fetches' = [fetches EXCEPT ![i][p] = o, ![i].first = p]
    /\ UNCHANGED <<mode, urls, inFlight, timers, results, tableData, checkLog>>
    /\ UNCHANGED <<logVars, surfaceVars>>
    /\ UNCHANGED layoutVars

\* The second request of a check settles: requestSite resolves, checkSite
\* stores the result and calls onUpdate, and the monitor goes on
CheckCompletes ==
    /\ ~exited
    /\ \E i \in inFlight, p \in {"http", "https"}, o \in Outcomes :
          /\ fetches[i][p] = "pending"
          /\ fetches[i].first # "none"
          /\ LET f == [fetches[i] EXCEPT ![p] = o]
                 r == [host |-> urls[i], http |-> f.http, https |-> f.https,
                       first |-> f.first]
                 ns == NextStarts(mode, urls, i)
             IN  /\ OnUpdate(r)
                 /\ inFlight' = (inFlight \ {i}) \cup ns
                 /\ fetches' = [j \in 1..Len(urls) |->
                                  IF j \in ns THEN Started
                                  ELSE IF j = i THEN Idle ELSE fetches[j]]
                 /\ timers' = timers \cup NextTimers(mode, urls, i)
                 /\ checkLog' = checkLog \o << <<"done", i>> >>
                                  \o (IF ns = {} THEN <<>> ELSE << <<"start", i + 1>> >>)
    /\ UNCHANGED <<mode, urls>>
    /\ UNCHANGED <<rows, columns, isRunning, stdout, sigintListeners, exited,
                   resizes, starts>>
    /\ UNCHANGED layoutVars

\* The starts recorded in the check log, and their number
StartsOf(log) == SelectSeq(log, LAMBDA e : e[1] = "start")
Starts(log) == Len(StartsOf(log))

\* A timer fires: startMonitoringSite(url) in parallel mode, checkSites()
\* in sequential mode
TimerFires ==
    /\ ~exited
    /\ Starts(checkLog) < MaxChecks
    /\ \E t \in timers :
          LET ns == IF t = 0 THEN FirstChecks(mode, urls) ELSE {t}
          IN  /\ timers' = timers \ {t}
              /\ inFlight' = inFlight \cup ns
              /\ fetches' = [j \in 1..Len(urls) |->
                               IF j \in ns THEN Started ELSE fetches[j]]
              /\ checkLog' = checkLog \o
                               SelectSeq([j \in 1..Len(urls) |-> <<"start", j>>],
                                         LAMBDA e : e[2] \in ns)
    /\ UNCHANGED <<mode, urls, results, tableData>>
    /\ UNCHANGED <<logVars, surfaceVars>>
    /\ UNCHANGED layoutVars

(***************************************************************************)
(* Specifications.                                                         *)
(***************************************************************************)
NoLayout ==
    /\ element = NullChild
    /\ constraints = NoConstraints
    /\ outcome = NoOutcome
    /\ previous = NoOutcome

NoMonitor ==
    /\ mode = "none"
    /\ urls = <<>>
    /\ fetches = <<>>
    /\ inFlight = {}
    /\ timers = {}
    /\ results = <<>>
    /\ tableData = <<>>
    /\ checkLog = <<>>

\* The layout functions applied to elements and constraints
LayoutInit == InitLayout /\ InitLogBox /\ InitSurfaceAt(TerminalSize) /\ NoMonitor
LayoutNext ==
    CallRender \/ CallHeight \/ CallWidth \/ CallCalculateHeight \/ CallCalculateWidth
SpecLayout == LayoutInit /\ [][LayoutNext]_vars

\* One element, read, rendered and changed
ElementInit ==
    InitElement /\ InitLogBox /\ InitSurfaceAt(TerminalSize) /\ NoMonitor
ElementNext ==
    SetHeight \/ SetWidth \/ ChangeContent \/ GetHeight \/ GetWidth \/ RenderElement
SpecElement == ElementInit /\ [][ElementNext]_vars

\* A LogBox and its appendLog
LogBoxInit == NoLayout /\ InitLogBox /\ InitSurfaceAt(TerminalSize) /\ NoMonitor
LogBoxNext == CallAppendLog
SpecLogBox == LogBoxInit /\ [][LogBoxNext]_vars

\* A TerminalUI and the calls of its methods
SurfaceInit == NoLayout /\ InitLogBox /\ InitSurface /\ NoMonitor
SurfaceNext == Start \/ SetChild \/ Render \/ Resize \/ Exit \/ Sigint
SpecSurface == SurfaceInit /\ [][SurfaceNext]_vars

\* The program: createMonitor, then the events of the loop
MonitorInit == NoLayout /\ InitMonitor
MonitorNext == FetchSettles \/ CheckCompletes \/ TimerFires \/ Sigint
Spec == MonitorInit /\ [][MonitorNext]_vars

\* The program under the assumption that every request settles (each has
\* a 5000 ms abort timeout) and every pending timer fires.  The first
\* request of a check settles in FetchSettles, the second in
\* CheckCompletes.  CheckCompletes is enabled exactly when Completable
\* holds and its steps are the steps that append a "done" entry to the
\* check log (ACompletion); its weak fairness is written out with these.
Positions == UNION { 1..Len(us) : us \in UrlLists }

Completable == ~exited /\ \E i \in inFlight : fetches[i].first # "none"

ACompletion ==
    /\ Len(checkLog') > Len(checkLog)
    /\ checkLog'[Len(checkLog) + 1][1] = "done"

RequestsSettle ==
    /\ WF_vars(FetchSettles)
    /\ ([]<>(~Completable) \/ []<><<ACompletion>>_vars)

TimersFire == WF_vars(TimerFires)

SpecLive == MonitorInit /\ [][MonitorNext]_vars /\ RequestsSettle /\ TimersFire

(***************************************************************************)
(* Properties.                                                             *)
(***************************************************************************)
IsFlex(el) == el.kind = "flex"
Rendered == outcome.op = "render"
AllChildren(f, P(_)) == \A i \in 1..Len(f.elements) : P(f.elements[i])

\* C1: the text any element returns from render(maxWidth, maxHeight) has at
\* most maxHeight lines and no line wider than maxWidth.
C1_RenderFits ==
    Rendered =>
        /\ LineCount(outcome.text) <= constraints.maxHeight.v
        /\ TextWidth(outcome.text) <= constraints.maxWidth.v

\* The height given to the children before child i
RECURSIVE GivenBefore(_, _)
GivenBefore(given, i) ==
    IF i = 1 THEN 0 ELSE GivenBefore(given, i - 1) + given[i - 1].height.v

\* C2: in a vertical Flex whose children have no fixed height, child i is
\* rendered with height min(intrinsic height of i, maxHeight minus the
\* heights given to the children before i); intrinsic heights {10, 10}
\* under maxHeight 15 get 10 and 5.
C2_FirstComeHeights ==
    (Rendered /\ IsFlex(element) /\ element.direction = "vertical"
       /\ AllChildren(element, NoFixedHeight)) =>
        \A i \in 1..Len(element.elements) :
            outcome.given[i].height =
                Num(Min2(LeafCalculateHeight(element.elements[i]).v,
                         constraints.maxHeight.v - GivenBefore(outcome.given, i)))

C2_Witness ==
    /\ Rendered /\ IsFlex(element) /\ element.direction = "vertical"
    /\ Len(element.elements) = 2
    /\ AllChildren(element, NoFixedHeight)
    /\ Heights(element.elements) = <<Num(10), Num(10)>>
    /\ constraints.maxHeight = Num(15)
    /\ outcome.given[1].height = Num(10)
    /\ outcome.given[2].height = Num(5)

\* C3: when the widths of the children of a horizontal Flex sum to exactly
\* maxWidth, every line render produces is maxWidth wide.
C3_ExactWidth ==
    (Rendered /\ IsFlex(element) /\ element.direction = "horizontal"
       /\ JSSum(Widths(element.elements)) = constraints.maxWidth) =>
        \A l \in 1..LineCount(outcome.text) :
            outcome.text[l] = constraints.maxWidth.v

\* C4: in a horizontal Flex without flexible-width children the flexible
\* share is 0.
C4_ZeroShare ==
    (Rendered /\ IsFlex(element) /\ element.direction = "horizontal"
       /\ AllChildren(element, HasFixedWidth)) =>
        outcome.share = Num(0)

\* C5: a Flex with no elements (and no fixed size of its own) has height 0
\* and width 0 and renders to the empty text.
C5_EmptyFlexIsZero ==
    (IsFlex(element) /\ element.elements = <<>>
       /\ element.fixedHeight = Undefined /\ element.fixedWidth = Undefined) =>
        /\ outcome.op = "height" => outcome.value = Num(0)
        /\ outcome.op = "width" => outcome.value = Num(0)
        /\ outcome.op = "render" => outcome.text = <<0>>

\* C6: after appendLog was called with l1, ..., ln the LogBox holds exactly
\* these n entries, newest first, and its content is ln, ..., l1 joined by
\* newlines; "a", "b", "c" give "c\nb\na".
C6_NewestFirst ==
    /\ Len(logs) = Len(appended)
    /\ \A i \in 1..Len(appended) : logs[i] = appended[Len(appended) + 1 - i]
    /\ content = Join(Reverse(appended))
    /\ appended = << <<"a">>, <<"b">>, <<"c">> >> =>
           content = <<"c", NL, "b", NL, "a">>

C6_Witness ==
    /\ appended = << <<"a">>, <<"b">>, <<"c">> >>
    /\ content = <<"c", NL, "b", NL, "a">>

\* C7: once the monitor is created and the Surface started, a process that
\* has ended on an interrupt has written the cursor-visible sequence last:
\* it never ends with the cursor hidden.
C7_CursorRestored ==
    exited =>
        /\ ~CursorHidden(termOut)
        /\ Len(termOut) >= 2
        /\ SubSeq(termOut, Len(termOut) - 1, Len(termOut)) = CleanupWrites

C7_Witness ==
    /\ exited
    /\ isRunning
    /\ \E i \in 1..Len(termOut) : termOut[i] = "clear-home-hide"
    /\ Len(checkLog) > 2

\* C8: a call of start() on a Surface that is running changes neither the
\* running flag nor the terminal output nor the registered signal
\* listeners.
C8_StartIdempotent ==
    [][(isRunning /\ starts' = starts + 1) =>
          /\ isRunning' = isRunning
          /\ termOut' = termOut
          /\ sigintListeners' = sigintListeners]_vars

\* C9: the Surface always holds the size the terminal last reported (an
\* absent or zero count reads as the default 24 or 80), and the constraints
\* of the most recent render pass are that size: a resize re-renders at
\* once and no pass uses a stale size.
C9_FreshDimensions ==
    /\ rows = OrDefault(stdout.rows, DefaultRows)
    /\ columns = OrDefault(stdout.columns, DefaultColumns)
    /\ lastPass # NoPass =>
           lastPass = Constraints(Num(OrDefault(stdout.columns, DefaultColumns)),
                                  Num(OrDefault(stdout.rows, DefaultRows)))

C9_Witness ==
    /\ resizes > 0
    /\ stdout = [rows |-> 10, columns |-> 40]
    /\ lastPass = Constraints(Num(40), Num(10))
    /\ termOut # <<>> /\ termOut[Len(termOut)] = "content"

\* C10: in sequential mode at most one check is in flight, the checks are
\* started in the order of the list, each after the one before it has
\* completed, and the timer of the next cycle is pending only when the
\* check of the last site of the cycle has completed.
C10_OneAfterAnother ==
    mode = "sequential" =>
        /\ Cardinality(inFlight) <= 1
        /\ \A k \in 1..Len(StartsOf(checkLog)) :
              StartsOf(checkLog)[k][2] = ((k - 1) % Len(urls)) + 1
        /\ \A j \in 1..Len(checkLog) :
              /\ checkLog[j][1] = (IF j % 2 = 1 THEN "start" ELSE "done")
              /\ j % 2 = 0 => checkLog[j][2] = checkLog[j - 1][2]
        /\ inFlight = (IF Len(checkLog) % 2 = 1
                       THEN {checkLog[Len(checkLog)][2]} ELSE {})
        /\ timers # {} =>
              /\ inFlight = {}
              /\ Len(checkLog) % (2 * Len(urls)) = 0
              /\ checkLog[Len(checkLog)] = <<"done", Len(urls)>>

C10_Witness ==
    /\ mode = "sequential"
    /\ Len(urls) = 2
    /\ timers = {0}
    /\ checkLog = << <<"start", 1>>, <<"done", 1>>, <<"start", 2>>, <<"done", 2>> >>

\* C16: calculateWidth of a horizontal Flex whose children all have a fixed
\* width is the sum of these widths, and calculateHeight of a vertical Flex
\* whose children all have a fixed height is the sum of these heights.
C16_FixedSum ==
    /\ (outcome.op = "calculateWidth" /\ IsFlex(element)
          /\ element.direction = "horizontal"
          /\ AllChildren(element, HasFixedWidth)) =>
            outcome.value = JSSum(Widths(element.elements))
    /\ (outcome.op = "calculateHeight" /\ IsFlex(element)
          /\ element.direction = "vertical"
          /\ AllChildren(element, HasFixedHeight)) =>
            outcome.value = JSSum(Heights(element.elements))

\* The sum of the heights of the children of f, fixed or intrinsic
TotalHeight(f) == JSSum(Heights(f.elements))

\* C18: in a vertical Flex with fixed-height and flexible-height children
\* whose heights sum to at most maxHeight, every flexible child is rendered
\* with its full intrinsic height, wherever the fixed-height children sit.
C18_FixedChargedOnce ==
    (Rendered /\ IsFlex(element) /\ element.direction = "vertical"
       /\ ~AllChildren(element, NoFixedHeight)
       /\ ~AllChildren(element, HasFixedHeight)
       /\ ~JSLess(constraints.maxHeight, TotalHeight(element))) =>
        \A i \in 1..Len(element.elements) :
            NoFixedHeight(element.elements[i]) =>
                outcome.given[i].height = LeafCalculateHeight(element.elements[i])

\* C19: every width and height a Flex assigns to a child for its render is
\* at least 0.
C19_NoNegativeGiven ==
    (Rendered /\ IsFlex(element)) =>
        \A i \in 1..Len(element.elements) :
            /\ ~JSLess(outcome.given[i].width, Num(0))
            /\ ~JSLess(outcome.given[i].height, Num(0))

\* The entries of the check log about position i, and whether a log of one
\* position alternates start, done, start, ...
LogOf(log, i) == SelectSeq(log, LAMBDA e : e[2] = i)
Alternates(l) ==
    \A j \in 1..Len(l) : l[j][1] = (IF j % 2 = 1 THEN "start" ELSE "done")

\* What parallel mode does for every entry of the list: the first checks of
\* all entries start before anything completes, the checks of one entry
\* follow one another, and an entry that is not being checked waits on its
\* own timer, set at its own completion
ParallelPerEntry ==
    /\ \A j \in 1..Len(urls) : checkLog[j] = <<"start", j>>
    /\ timers \subseteq 1..Len(urls)
    /\ \A i \in 1..Len(urls) :
          /\ Alternates(LogOf(checkLog, i))
          /\ (i \in inFlight) <=> (Len(LogOf(checkLog, i)) % 2 = 1)
          /\ (i \in timers) <=> (i \notin inFlight)

\* C11 as stated: in parallel mode the first check of every URL is started
\* before any check completes, each URL has at most one check in flight,
\* and the next check of a URL is scheduled from its own completion
\* whatever the state of the other URLs.
C11_OnePerUrl ==
    mode = "parallel" =>
        /\ ParallelPerEntry
        /\ \A i \in inFlight, j \in inFlight : urls[i] = urls[j] => i = j

\* C11, amended: the same for every entry of the list of URLs; a URL that is
\* listed twice is monitored as two entries and has two checks in flight.
C11_ParallelPerEntry == mode = "parallel" => ParallelPerEntry

C11_Witness ==
    /\ mode = "parallel"
    /\ urls = << <<"h", "1">>, <<"h", "2">> >>
    /\ LogOf(checkLog, 1) = << <<"start", 1>>, <<"done", 1>>, <<"start", 1>> >>
    /\ LogOf(checkLog, 2) = << <<"start", 2>> >>
    /\ fetches[2] = Started
    /\ inFlight = {1, 2}

\* The completions recorded in the check log
DonesOf(log) == SelectSeq(log, LAMBDA e : e[1] = "done")

\* Whether m1, m2 are the two messages of one check of host h: one for
\* the HTTP request and one for the HTTPS request, in either order
MessagePair(h, m1, m2) ==
    \E p \in {"http", "https"}, o1 \in Outcomes, o2 \in Outcomes :
        /\ m1 = makeRequestResultMessage(h, ProtoText(p), o1)
        /\ m2 = makeRequestResultMessage(
                    h, ProtoText(IF p = "http" THEN "https" ELSE "http"), o2)

\* The number of render() calls: each one moves the cursor home first
Renders(ws) == Len(SelectSeq(ws, LAMBDA w : w = "cursor-to"))

\* C14: every completed check is handled as a whole: the table is replaced
\* by the rows of the results, two log entries are appended (one for HTTP,
\* one for HTTPS) and the screen is rendered once, after these changes; so
\* after k completed checks the LogBox holds 2k entries, k + 1 renders were
\* made (one by createMonitor) and the last one drew the current tree.
C14_UpdateAtomic ==
    LET k == Len(DonesOf(checkLog))
    IN  /\ Len(logs) = 2 * k
        /\ Len(appended) = 2 * k
        /\ \A j \in 1..k :
              MessagePair(urls[DonesOf(checkLog)[j][2]],
                          appended[2 * j - 1], appended[2 * j])
        /\ k > 0 => tableData = StatusRows(results)
        /\ child = FlexBox(tableData, content)
        /\ Renders(termOut) = k + 1
        /\ shown = FlexBox(tableData, content)

C14_Witness ==
    /\ mode = "parallel"
    /\ Len(DonesOf(checkLog)) = 2
    /\ Len(logs) = 4
    /\ Len(tableData) = 2
    /\ Renders(termOut) = 3
    /\ inFlight # {}

\* C17: the status table always holds one row for every monitored URL, in
\* the order of the list, and the row of a URL whose first check has not
\* completed is its "Pending" row.
C17_RowPerUrl ==
    /\ Len(tableData) = Len(urls)
    /\ \A i \in 1..Len(urls) :
          /\ tableData[i][1] = urls[i]
          /\ LogOf(DonesOf(checkLog), i) = <<>> =>
                 tableData[i] = <<urls[i], Pending, Pending, NotAvailable>>

\* Whether the last check of position i has completed
Completed(i) ==
    /\ i \in 1..Len(urls)
    /\ i \notin inFlight
    /\ LogOf(DonesOf(checkLog), i) # <<>>

\* C15: in either mode, when requests settle and timers fire, a completed
\* check of a URL is eventually followed by another check of that URL, as
\* long as the process is not interrupted (and, in the model, as long as the
\* bound on the number of checks is not reached).
C15_CheckedAgain ==
    \A i \in Positions :
        Completed(i) ~>
            (i \in inFlight \/ exited \/ Starts(checkLog) >= MaxChecks)

C15_Witness ==
    /\ mode = "sequential"
    /\ Len(urls) = 2
    /\ ~exited
    /\ LogOf(checkLog, 2) = << <<"start", 2>>, <<"done", 2>>, <<"start", 2>> >>

\* C12: the height (width) getter of an element returns its fixed height
\* (width) when one is set, by the constructor or by the setter and
\* whatever the content is or has become, and else the value computed from
\* the content and children as they are now.
C12_FixedOrComputed ==
    /\ outcome.op = "height" =>
          outcome.value = (IF element.fixedHeight # Undefined
                           THEN element.fixedHeight
                           ELSE ElementCalculateHeight(element))
    /\ outcome.op = "width" =>
          outcome.value = (IF element.fixedWidth # Undefined
                           THEN element.fixedWidth
                           ELSE ElementCalculateWidth(element))

C12_Witness ==
    /\ outcome.op = "height"
    /\ element.kind = "logbox"
    /\ element.fixedHeight = Num(0)
    /\ element.content = <<"c", NL, "b", NL, "a">>
    /\ outcome.value = Num(0)

====
